---- MODULE Spec2Model ----
(***************************************************************************)
(* Model of the imageSync relay service (src/src/main.rs).                 *)
(*                                                                         *)
(* Strings are sequences of one-character strings, so that split, join     *)
(* and replace are computed character by character as the code does.       *)
(* Each request handler is a process whose steps are the pieces of         *)
(* sync_image between two await points; the container engine is the        *)
(* environment: it answers every call with success or failure and keeps    *)
(* the local image store.                                                  *)
(***************************************************************************)
EXTENDS Integers, Sequences, FiniteSets, TLC

VARIABLES route, map, pc, lv, ops, stream, reply, http, store, registry,
          logEnabled

vars ==
    <<route, map, pc, lv, ops, stream, reply, http, store, registry, logEnabled>>

(***************************************************************************)
(* Bounds                                                                  *)
(***************************************************************************)
MaxLen == 3
MaxChunks == 2

Alphabet == {"a", "/", "@", ":", "_"}

Reqs == {"r1", "r2"}

Strings == UNION {[1..k -> Alphabet] : k \in 0..MaxLen}

(***************************************************************************)
(* String helpers (Rust std: str::contains, str::split, [&str]::join,      *)
(* str::replace with a one-character pattern)                              *)
(***************************************************************************)
Contains(s, c) == \E i \in 1..Len(s) : s[i] = c

RECURSIVE Split(_, _)
Split(s, c) ==
    IF ~Contains(s, c) THEN <<s>>
    ELSE LET i == CHOOSE k \in 1..Len(s) :
                      s[k] = c /\ \A j \in 1..(k - 1) : s[j] # c
         IN  <<SubSeq(s, 1, i - 1)>> \o Split(SubSeq(s, i + 1, Len(s)), c)

RECURSIVE Join(_, _)
Join(parts, sep) ==
    IF Len(parts) = 0 THEN <<>>
    ELSE IF Len(parts) = 1 THEN parts[1]
    ELSE parts[1] \o sep \o Join(Tail(parts), sep)

Replace(s, from, to) == [i \in 1..Len(s) |-> IF s[i] = from THEN to ELSE s[i]]

(***************************************************************************)
(* Literals of the source                                                  *)
(***************************************************************************)
Latest == <<"l", "a", "t", "e", "s", "t">>

DestRepo == <<"dierbei/csi_demo">>

\* mutant of DestName: the destination name does not depend on the tag
DestNameFixed(tag) == DestRepo \o <<":">> \o Latest

\* format!("dierbei/csi_demo:{}", tag_image_str); also the name the engine
\* gives to the tag created by tag_image(repo, tag)
DestName(tag) == DestRepo \o <<":">> \o tag

(***************************************************************************)
(* Reference parsing, lines 142-176                                        *)
(***************************************************************************)
\* mutant of SplitParts: the digest marker is not looked at before the split
SplitPartsAlways(image) == Split(image, ":")

\* let mut parts ...; if image.contains('@') { push(image) } else { split(':') }
SplitParts(image) ==
    IF Contains(image, "@") THEN <<image>> ELSE Split(image, ":")

\* mutant of TooManyParts: off by one in the length check
TooManyPartsOffByOne(parts) == Len(parts) > 3

\* if parts.len() > 2 { return Err(..) }
TooManyParts(parts) == Len(parts) > 2

\* mutant of WithLatest: the implicit tag is never pushed
WithLatestMissing(parts) == parts

\* if parts.len() == 1 { if !parts[0].contains("@") { parts.push("latest") } }
WithLatest(parts) ==
    IF Len(parts) = 1
    THEN IF ~Contains(parts[1], "@") THEN Append(parts, Latest) ELSE parts
    ELSE parts

Flatten(s) == Replace(Replace(Replace(s, "/", "_"), "@", "_"), ":", "_")

\* mutant of JoinedImageStr: joined with the separator of the destination tag
JoinedImageStrUnderscore(parts) ==
    IF Contains(parts[1], "@") THEN Flatten(parts[1]) ELSE Join(parts, <<"_">>)

JoinedImageStr(parts) ==
    IF Contains(parts[1], "@") THEN Flatten(parts[1]) ELSE Join(parts, <<":">>)

TagImageStr(parts) ==
    IF Contains(parts[1], "@") THEN Flatten(parts[1]) ELSE Join(parts, <<"_">>)

\* pull_options.from_image, lines 182-192
FromImage(l) ==
    IF Contains(l.parts[1], "@") THEN l.parts[1] ELSE l.joined_image_str

\* mutant of TagSource: the tag call always names the joined form
TagSourceJoined(l) == l.joined_image_str

\* first argument of docker.tag_image, lines 213-221
TagSource(l) ==
    IF Contains(l.parts[1], "@") THEN l.parts[1] ELSE l.joined_image_str

(***************************************************************************)
(* Values                                                                  *)
(***************************************************************************)
NoLocals == [parts |-> <<>>, joined_image_str |-> <<>>, tag_image_str |-> <<>>]

NoReply ==
    [kind |-> "none", source_image |-> <<>>, dest_image |-> <<>>, summary |-> {}]

\* Err(warp::reject::custom(Error::ImageFormatError))
ErrReply ==
    [kind |-> "ImageFormatError", source_image |-> <<>>, dest_image |-> <<>>,
     summary |-> {}]

\* the handler task panicked (an unwrap on Err): the caller gets no response
PanicReply ==
    [kind |-> "panic", source_image |-> <<>>, dest_image |-> <<>>, summary |-> {}]

\* Ok(warp::reply::json(&SyncImageRes { .. })), lines 271-274
OkReply(l) ==
    [kind |-> "ok", source_image |-> l.joined_image_str,
     dest_image |-> l.tag_image_str, summary |-> {}]

\* Ok(warp::reply::with_status("OK".to_string(), StatusCode::OK)), line 123
HealthReply ==
    [kind |-> "health", source_image |-> <<>>, dest_image |-> <<>>, summary |-> {}]

\* Ok(warp::reply::json(&resp)), line 298: the images the engine deleted
PruneReply(resp) ==
    [kind |-> "pruned", source_image |-> <<>>, dest_image |-> <<>>,
     summary |-> resp]

\* the rejection of warp when no route of lines 76-78 matches
NotFoundReply ==
    [kind |-> "not_found", source_image |-> <<>>, dest_image |-> <<>>,
     summary |-> {}]

\* no response on the wire (yet, or ever after a panic)
NoResponse == [status |-> 0, body |-> "", json |-> NoReply]

\* mutant of return_error: the custom rejection is not found
return_errorNotFound(r) ==
    [status |-> 404, body |-> "Route not found", json |-> NoReply]

\* lines 100-113: the recover filter maps a rejection to a response
return_error(r) ==
    IF r.kind = "ImageFormatError"
    THEN [status |-> 401, body |-> "Image is null", json |-> NoReply]
    ELSE [status |-> 404, body |-> "Route not found", json |-> NoReply]

\* what the caller receives for the value a handler returned
Response(r) ==
    IF r.kind \in {"ImageFormatError", "not_found"} THEN return_error(r)
    ELSE IF r.kind = "health" THEN [status |-> 200, body |-> "OK", json |-> NoReply]
    ELSE IF r.kind \in {"ok", "pruned"} THEN [status |-> 200, body |-> "", json |-> r]
    ELSE NoResponse

\* one engine call as the handler issued it
Call(op, image, repo, tag) ==
    [op |-> op, image |-> image, repo |-> repo, tag |-> tag,
     filters |-> <<>>, result |-> "pending", absent |-> FALSE, deleted |-> {}]

\* lines 285-290: docker.prune_images(Some(PruneImagesOptions { filters }))
PruneCall(filters) ==
    [op |-> "prune", image |-> <<>>, repo |-> <<>>, tag |-> <<>>,
     filters |-> filters, result |-> "pending", absent |-> FALSE,
     deleted |-> {}]

\* filters.insert("until", vec!["1m"]), line 286
PruneFilters == <<"until", "1m">>

\* the routes of lines 56-74, and any other path
Routes == {"imagesync", "health", "prune_images", "other"}

\* a progress stream nobody reads: no item delivered, none failed
NoStream == [chunks |-> 0, bad |-> FALSE]

\* the query maps a request can carry
QueryMaps(images) ==
    {<<>>}
        \cup {[k \in {"other"} |-> <<"a">>]}
        \cup {[k \in {"image"} |-> s] : s \in images}

\* the references of the concurrent specification
Images ==
    { <<"a", ":", "b">>,
      <<"a">>,
      <<"a", "@", "s", ":", "d">>,
      <<"a", ":", "b", ":", "c">>,
      DestRepo \o <<":", "a", "_", "b">> }

\* local names an accepted request works on
Accepted(m) ==
    /\ "image" \in DOMAIN m
    /\ ~TooManyParts(SplitParts(m["image"]))

LocalsOf(image) ==
    LET parts == WithLatest(SplitParts(image))
    IN  [parts |-> parts,
         joined_image_str |-> JoinedImageStr(parts),
         tag_image_str |-> TagImageStr(parts)]

JoinedNames(m) ==
    IF Accepted(m) THEN {LocalsOf(m["image"]).joined_image_str} ELSE {}

AllNames(m) ==
    IF Accepted(m)
    THEN LET l == LocalsOf(m["image"])
         IN  {l.joined_image_str, FromImage(l), DestName(l.tag_image_str)}
    ELSE {}

(***************************************************************************)
(* Initial states                                                          *)
(***************************************************************************)
\* two concurrent requests; the store may already hold the images named by
\* the joined form of either request
Init ==
    /\ route \in [Reqs -> Routes]
    /\ map \in {m \in [Reqs -> QueryMaps(Images)] :
                   \A p \in Reqs : route[p] # "imagesync" => m[p] = <<>>}
    /\ http = [p \in Reqs |-> NoResponse]
    /\ pc = [p \in Reqs |-> "start"]
    /\ lv = [p \in Reqs |-> NoLocals]
    /\ ops = [p \in Reqs |-> <<>>]
    /\ stream = [p \in Reqs |-> NoStream]
    /\ reply = [p \in Reqs |-> NoReply]
    /\ store \in SUBSET (UNION {JoinedNames(map[p]) : p \in Reqs})
    /\ registry = {}
    /\ logEnabled \in BOOLEAN

\* one request alone: any route, and for imagesync every string up to MaxLen
InitSolo ==
    /\ route \in {r \in [Reqs -> Routes] : r["r2"] = "imagesync"}
    /\ map \in {m \in [Reqs -> QueryMaps(Strings)] :
                   /\ m["r2"] = <<>>
                   /\ route["r1"] # "imagesync" => m["r1"] = <<>>}
    /\ http = [p \in Reqs |-> NoResponse]
    /\ pc = [p \in Reqs |-> IF p = "r1" THEN "start" ELSE "absent"]
    /\ lv = [p \in Reqs |-> NoLocals]
    /\ ops = [p \in Reqs |-> <<>>]
    /\ stream = [p \in Reqs |-> NoStream]
    /\ reply = [p \in Reqs |-> NoReply]
    /\ store \in SUBSET AllNames(map["r1"])
    /\ registry = {}
    /\ logEnabled \in BOOLEAN

(***************************************************************************)
(* sync_image                                                              *)
(***************************************************************************)
Finish(p, r) ==
    /\ pc' = [pc EXCEPT ![p] = IF r.kind = "panic" THEN "panicked" ELSE "done"]
    /\ reply' = [reply EXCEPT ![p] = r]
    /\ http' = [http EXCEPT ![p] = Response(r)]

Goto(p, l) ==
    /\ pc' = [pc EXCEPT ![p] = l]
    /\ UNCHANGED <<reply, http>>

Issue(p, c) == ops' = [ops EXCEPT ![p] = Append(@, c)]

Last(p) == ops[p][Len(ops[p])]

SetLast(p, c) == ops' = [ops EXCEPT ![p][Len(ops[p])] = c]

\* lines 132-176: parameter check and reference parsing
Receive(p) ==
    /\ route[p] = "imagesync"
    /\ pc[p] = "start"
    /\ UNCHANGED <<route, map, ops, stream, store, registry, logEnabled>>
    /\ IF map[p] = <<>>
       THEN Finish(p, ErrReply) /\ UNCHANGED lv
       ELSE IF "image" \notin DOMAIN map[p]
       THEN Finish(p, ErrReply) /\ UNCHANGED lv
       ELSE IF TooManyParts(SplitParts(map[p]["image"]))
       THEN Finish(p, ErrReply) /\ UNCHANGED lv
       ELSE /\ lv' = [lv EXCEPT ![p] = LocalsOf(map[p]["image"])]
            /\ Goto(p, "connect")

\* line 179: Docker::connect_with_socket_defaults().unwrap()
Connect(p) ==
    /\ pc[p] = "connect"
    /\ UNCHANGED <<route, map, lv, ops, stream, store, registry, logEnabled>>
    /\ \E ok \in BOOLEAN :
         IF ok THEN Goto(p, "pull") ELSE Finish(p, PanicReply)

\* mutant of PullIssue: the pull stream is created but not awaited
PullIssueNoAwait(p) ==
    /\ pc[p] = "pull"
    /\ ops' = [ops EXCEPT ![p] = Append(@, Call("pull", FromImage(lv[p]), <<>>, <<>>))]
    /\ pc' = [pc EXCEPT ![p] = "tag"]
    /\ UNCHANGED <<route, map, lv, stream, reply, http, store, registry, logEnabled>>

\* lines 181-195: docker.create_image(pull_options, None, None)
PullIssue(p) ==
    /\ pc[p] = "pull"
    /\ Issue(p, Call("pull", FromImage(lv[p]), <<>>, <<>>))
    /\ Goto(p, "pulling")
    /\ UNCHANGED <<route, map, lv, stream, store, registry, logEnabled>>

\* one item of a progress stream handed to the for_each closure, lines
\* 198-203 and 239-243: event!(Level::INFO, "{:?}", info.unwrap()) evaluates
\* info.unwrap() only when the event is enabled
StreamChunk(p, at) ==
    /\ pc[p] = at
    /\ stream[p].chunks < MaxChunks
    /\ UNCHANGED <<route, map, lv, ops, store, registry, logEnabled>>
    /\ \E ok \in BOOLEAN :
         /\ stream' = [stream EXCEPT ![p] = [chunks |-> @.chunks + 1,
                                              bad |-> @.bad \/ ~ok]]
         /\ IF ~ok /\ logEnabled
            THEN Finish(p, PanicReply)
            ELSE Goto(p, at)

PullChunk(p) == StreamChunk(p, "pulling")

\* mutant of PullEnd: the pulled image does not reach the local store
PullEndNotStored(p) ==
    /\ pc[p] = "pulling"
    /\ SetLast(p, [Last(p) EXCEPT !.result = IF stream[p].bad THEN "err" ELSE "ok"])
    /\ stream' = [stream EXCEPT ![p] = NoStream]
    /\ Goto(p, "tag")
    /\ UNCHANGED <<route, map, lv, store, registry, logEnabled>>

\* the pull stream ends; the engine stored the image unless the pull failed
PullEnd(p) ==
    /\ pc[p] = "pulling"
    /\ SetLast(p, [Last(p) EXCEPT !.result = IF stream[p].bad THEN "err" ELSE "ok"])
    /\ store' = IF stream[p].bad THEN store ELSE store \cup {Last(p).image}
    /\ stream' = [stream EXCEPT ![p] = NoStream]
    /\ Goto(p, "tag")
    /\ UNCHANGED <<route, map, lv, registry, logEnabled>>

\* lines 206-221: docker.tag_image(.., tag_options)
TagIssue(p) ==
    /\ pc[p] = "tag"
    /\ Issue(p, Call("tag", TagSource(lv[p]), DestRepo, lv[p].tag_image_str))
    /\ Goto(p, "tagging")
    /\ UNCHANGED <<route, map, lv, stream, store, registry, logEnabled>>

\* the engine answers the tag call: it succeeds only on an image of the
\* store; let _ret = .. drops the answer
TagReturn(p) ==
    /\ pc[p] = "tagging"
    /\ \E ok \in BOOLEAN :
         /\ ok => Last(p).image \in store
         /\ SetLast(p, [Last(p) EXCEPT !.result = IF ok THEN "ok" ELSE "err",
                                       !.absent = Last(p).image \notin store])
         /\ store' = IF ok
                     THEN store \cup {DestName(Last(p).tag)}
                     ELSE store
    /\ Goto(p, "push")
    /\ UNCHANGED <<route, map, lv, stream, registry, logEnabled>>

\* lines 223-236: docker.push_image("dierbei/csi_demo", push_options, credentials)
PushIssue(p) ==
    /\ pc[p] = "push"
    /\ Issue(p, Call("push", <<>>, DestRepo, lv[p].tag_image_str))
    /\ Goto(p, "pushing")
    /\ UNCHANGED <<route, map, lv, stream, store, registry, logEnabled>>

PushChunk(p) == StreamChunk(p, "pushing")

\* the push stream ends; the registry holds the tag when the push worked
PushEnd(p) ==
    /\ pc[p] = "pushing"
    /\ LET pushed == ~stream[p].bad /\ DestName(Last(p).tag) \in store
       IN  /\ SetLast(p, [Last(p) EXCEPT
                            !.result = IF pushed THEN "ok" ELSE "err",
                            !.absent = DestName(Last(p).tag) \notin store])
           /\ registry' = IF pushed
                          THEN registry \cup {DestName(Last(p).tag)}
                          ELSE registry
    /\ stream' = [stream EXCEPT ![p] = NoStream]
    /\ Goto(p, "rmsrc")
    /\ UNCHANGED <<route, map, lv, store, logEnabled>>

\* the engine answers a remove_image call: it succeeds only on an image of
\* the store, which it removes
RemoveAnswer(p, ok) ==
    /\ ok => Last(p).image \in store
    /\ SetLast(p, [Last(p) EXCEPT !.result = IF ok THEN "ok" ELSE "err",
                                  !.absent = Last(p).image \notin store])
    /\ store' = IF ok THEN store \ {Last(p).image} ELSE store

\* lines 245-250: docker.remove_image(&joined_image_str, ..)
RemoveSourceIssue(p) ==
    /\ pc[p] = "rmsrc"
    /\ Issue(p, Call("rmsrc", lv[p].joined_image_str, <<>>, <<>>))
    /\ Goto(p, "rmsrcing")
    /\ UNCHANGED <<route, map, lv, stream, store, registry, logEnabled>>

\* mutant of RemoveSourceReturn: the answer is dropped as for the tag call
RemoveSourceReturnIgnored(p) ==
    /\ pc[p] = "rmsrcing"
    /\ \E ok \in BOOLEAN :
         /\ RemoveAnswer(p, ok)
         /\ Goto(p, "rmdst")
    /\ UNCHANGED <<route, map, lv, stream, registry, logEnabled>>

\* lines 250-256: match .. { Ok(r) => r, Err(e) => return Err(..) }
RemoveSourceReturn(p) ==
    /\ pc[p] = "rmsrcing"
    /\ \E ok \in BOOLEAN :
         /\ RemoveAnswer(p, ok)
         /\ IF ok THEN Goto(p, "rmdst") ELSE Finish(p, ErrReply)
    /\ UNCHANGED <<route, map, lv, stream, registry, logEnabled>>

\* lines 258-263: docker.remove_image(&format!("dierbei/csi_demo:{}", ..), ..)
RemoveDstIssue(p) ==
    /\ pc[p] = "rmdst"
    /\ Issue(p, Call("rmdst", DestName(lv[p].tag_image_str), <<>>, <<>>))
    /\ Goto(p, "rmdsting")
    /\ UNCHANGED <<route, map, lv, stream, store, registry, logEnabled>>

\* mutant of RemoveDstReturn: a failed removal is made up for by dropping the
\* image all the same
RemoveDstReturnForced(p) ==
    /\ pc[p] = "rmdsting"
    /\ \E ok \in BOOLEAN :
         /\ ok => Last(p).image \in store
         /\ SetLast(p, [Last(p) EXCEPT !.result = IF ok THEN "ok" ELSE "err",
                                       !.absent = Last(p).image \notin store])
         /\ store' = store \ {Last(p).image}
         /\ IF ok THEN Finish(p, OkReply(lv[p])) ELSE Finish(p, ErrReply)
    /\ UNCHANGED <<route, map, lv, stream, registry, logEnabled>>

\* lines 263-274: the answer of the second removal, then the JSON reply
RemoveDstReturn(p) ==
    /\ pc[p] = "rmdsting"
    /\ \E ok \in BOOLEAN :
         /\ RemoveAnswer(p, ok)
         /\ IF ok THEN Finish(p, OkReply(lv[p])) ELSE Finish(p, ErrReply)
    /\ UNCHANGED <<route, map, lv, stream, registry, logEnabled>>

(***************************************************************************)
(* health_check, prune_images and the unmatched routes                     *)
(***************************************************************************)
\* lines 121-124
health_check(p) ==
    /\ route[p] = "health"
    /\ pc[p] = "start"
    /\ Finish(p, HealthReply)
    /\ UNCHANGED <<route, map, lv, ops, stream, store, registry, logEnabled>>

\* lines 76-80: no filter matches, the rejection goes to return_error
Unmatched(p) ==
    /\ route[p] = "other"
    /\ pc[p] = "start"
    /\ Finish(p, NotFoundReply)
    /\ UNCHANGED <<route, map, lv, ops, stream, store, registry, logEnabled>>

\* lines 282-283: Docker::connect_with_socket_defaults().unwrap()
PruneConnect(p) ==
    /\ route[p] = "prune_images"
    /\ pc[p] = "start"
    /\ UNCHANGED <<route, map, lv, ops, stream, store, registry, logEnabled>>
    /\ \E ok \in BOOLEAN :
         IF ok THEN Goto(p, "prune") ELSE Finish(p, PanicReply)

\* lines 285-290: docker.prune_images(options)
PruneIssue(p) ==
    /\ pc[p] = "prune"
    /\ Issue(p, PruneCall(PruneFilters))
    /\ Goto(p, "pruning")
    /\ UNCHANGED <<route, map, lv, stream, store, registry, logEnabled>>

\* mutant of PruneReturn: the engine's summary is not passed on
PruneReturnEmpty(p) ==
    /\ pc[p] = "pruning"
    /\ \E ok \in BOOLEAN : \E gone \in SUBSET store :
         /\ ~ok => gone = {}
         /\ SetLast(p, [Last(p) EXCEPT !.result = IF ok THEN "ok" ELSE "err",
                                       !.deleted = gone])
         /\ store' = store \ gone
         /\ IF ok THEN Finish(p, PruneReply({})) ELSE Finish(p, ErrReply)
    /\ UNCHANGED <<route, map, lv, stream, registry, logEnabled>>

\* lines 290-298: the engine deletes the unused images it chooses and reports
\* them, or fails; Ok(r) is returned as JSON, Err(e) as ImageFormatError
PruneReturn(p) ==
    /\ pc[p] = "pruning"
    /\ \E ok \in BOOLEAN : \E gone \in SUBSET store :
         /\ ~ok => gone = {}
         /\ SetLast(p, [Last(p) EXCEPT !.result = IF ok THEN "ok" ELSE "err",
                                       !.deleted = gone])
         /\ store' = store \ gone
         /\ IF ok THEN Finish(p, PruneReply(gone)) ELSE Finish(p, ErrReply)
    /\ UNCHANGED <<route, map, lv, stream, registry, logEnabled>>

Next ==
    \E p \in Reqs :
        \/ Receive(p)
        \/ Connect(p)
        \/ PullIssue(p)
        \/ PullChunk(p)
        \/ PullEnd(p)
        \/ TagIssue(p)
        \/ TagReturn(p)
        \/ PushIssue(p)
        \/ PushChunk(p)
        \/ PushEnd(p)
        \/ RemoveSourceIssue(p)
        \/ RemoveSourceReturn(p)
        \/ RemoveDstIssue(p)
        \/ RemoveDstReturn(p)
        \/ health_check(p)
        \/ Unmatched(p)
        \/ PruneConnect(p)
        \/ PruneIssue(p)
        \/ PruneReturn(p)

Spec == Init /\ [][Next]_vars

SpecSolo == InitSolo /\ [][Next]_vars

(***************************************************************************)
(* Properties                                                              *)
(***************************************************************************)
OpOrder == <<"pull", "tag", "push", "rmsrc", "rmdst">>

CountOf(s, c) == Cardinality({i \in 1..Len(s) : s[i] = c})

\* the requests of the imagesync route
SyncReqs == {p \in Reqs : route[p] = "imagesync"}

Handled(p) == pc[p] \notin {"start", "absent"}

HasImage(p) == "image" \in DOMAIN map[p]

Image(p) == map[p]["image"]

\* the engine call op of request p, with its answer
Issued(p, op) == \E i \in 1..Len(ops[p]) : ops[p][i].op = op

Answered(p, op, r) ==
    \E i \in 1..Len(ops[p]) : ops[p][i].op = op /\ ops[p][i].result = r

Ended(p) == pc[p] \in {"done", "panicked"}

\* rejected by the parameter check, before any engine call
Rejected(p) == pc[p] = "done" /\ reply[p] = ErrReply /\ ops[p] = <<>>

\* C1: the engine calls of one request are pull, tag, push, remove-source,
\* remove-destination in this order, each at most once, and a call is issued
\* only when every earlier call of the request has been answered.
C1_StrictOrder ==
    \A p \in SyncReqs :
        /\ Len(ops[p]) <= Len(OpOrder)
        /\ \A i \in 1..Len(ops[p]) :
              /\ ops[p][i].op = OpOrder[i]
              /\ i < Len(ops[p]) => ops[p][i].result # "pending"

C1_Witness ==
    \E p \in Reqs :
        /\ Len(ops[p]) = 5
        /\ \A i \in 1..5 : ops[p][i].result # "pending"

\* C2: a success response is {joined form, destination tag}, and after it
\* neither the pulled image nor <destination repo>:<destination tag> is in
\* the local store.
C2_SuccessLeavesNothing ==
    \A p \in Reqs :
        reply[p].kind = "ok" =>
            /\ reply[p].source_image = lv[p].joined_image_str
            /\ reply[p].dest_image = lv[p].tag_image_str
            /\ ops[p][1].image \notin store
            /\ DestName(lv[p].tag_image_str) \notin store

\* C3: a request without an image key, or whose image has no @ and at least
\* two colons, ends with the malformed-reference error and issues no engine
\* call, neither before nor after the error.
C3_MalformedRejected ==
    \A p \in SyncReqs :
        (~HasImage(p)
            \/ (~Contains(Image(p), "@") /\ CountOf(Image(p), ":") >= 2)) =>
            /\ ops[p] = <<>>
            /\ Handled(p) => Rejected(p)

C3_Witness ==
    \E p \in Reqs :
        /\ HasImage(p)
        /\ ~Contains(Image(p), "@")
        /\ CountOf(Image(p), ":") >= 2
        /\ Rejected(p)

\* C4: when the remove-source call fails the request ends with an error,
\* never with the success response, and issues no remove-destination call.
C4_SourceCleanupFatal ==
    \A p \in Reqs :
        Answered(p, "rmsrc", "err") =>
            /\ pc[p] = "done"
            /\ reply[p] = ErrReply
            /\ ~Issued(p, "rmdst")

C4_Witness ==
    \E p \in Reqs : Answered(p, "rmsrc", "err") /\ Answered(p, "tag", "ok")

\* C5: a request whose tag call failed still issues push and remove-source,
\* and its outcome is the one the two removals decide: success when both
\* succeed, an error otherwise.
C5_TagFailureNotFatal ==
    \A p \in Reqs :
        (Answered(p, "tag", "err") /\ Ended(p)) =>
            /\ Issued(p, "push")
            /\ Issued(p, "rmsrc")
            /\ reply[p].kind \in {"ok", "ImageFormatError"}
            /\ reply[p].kind = "ok" <=>
                  (Answered(p, "rmsrc", "ok") /\ Answered(p, "rmdst", "ok"))

\* C6: a failed item of the pull stream does not end the request: while pull
\* is the only call issued, the handler keeps reading the stream (and then
\* goes on to the tag call).
C6_PullChunkFailureIgnored ==
    \A p \in Reqs :
        (Len(ops[p]) = 1 /\ stream[p].bad) => pc[p] = "pulling"

\* C7: a failed item of the push stream does not end the request: while push
\* is the last call issued, the handler keeps reading the stream (and then
\* goes on to the two removals).
C7_PushChunkFailureIgnored ==
    \A p \in Reqs :
        (Len(ops[p]) = 3 /\ stream[p].bad) => pc[p] = "pushing"

\* C8: an image with no @ and exactly one colon is accepted, its joined form
\* is the image itself and its destination tag is the image with the colon
\* turned into an underscore.
C8_RoundTrip ==
    \A p \in Reqs :
        (/\ Handled(p)
         /\ HasImage(p)
         /\ ~Contains(Image(p), "@")
         /\ CountOf(Image(p), ":") = 1) =>
            /\ ~Rejected(p)
            /\ lv[p].joined_image_str = Image(p)
            /\ lv[p].tag_image_str =
                  [i \in 1..Len(Image(p)) |->
                      IF Image(p)[i] = ":" THEN "_" ELSE Image(p)[i]]
            /\ reply[p].kind = "ok" =>
                  reply[p].source_image = Image(p)

C8_Witness ==
    \E p \in Reqs :
        /\ HasImage(p)
        /\ ~Contains(Image(p), "@")
        /\ CountOf(Image(p), ":") = 1
        /\ Len(Image(p)) = 3
        /\ reply[p].kind = "ok"

\* C9: an image with neither @ nor colon is accepted with the tag latest:
\* its joined form is <image>:latest and its destination tag <image>_latest.
C9_ImplicitLatest ==
    \A p \in Reqs :
        (/\ Handled(p)
         /\ HasImage(p)
         /\ ~Contains(Image(p), "@")
         /\ ~Contains(Image(p), ":")) =>
            /\ ~Rejected(p)
            /\ lv[p].joined_image_str = Image(p) \o <<":">> \o Latest
            /\ lv[p].tag_image_str = Image(p) \o <<"_">> \o Latest
            /\ reply[p].kind = "ok" =>
                  /\ reply[p].source_image = Image(p) \o <<":">> \o Latest
                  /\ reply[p].dest_image = Image(p) \o <<"_">> \o Latest

C9_Witness ==
    \E p \in Reqs :
        /\ HasImage(p)
        /\ ~Contains(Image(p), "@")
        /\ ~Contains(Image(p), ":")
        /\ Len(Image(p)) > 0
        /\ reply[p].kind = "ok"
        /\ reply[p].dest_image = Image(p) \o <<"_">> \o Latest

\* C10: an image that contains @ is accepted whatever its number of colons,
\* is not split and gets no implicit tag; its joined form and its
\* destination tag are both the image with every /, @ and : turned into _.
C10_DigestFlattened ==
    \A p \in Reqs :
        (Handled(p) /\ HasImage(p) /\ Contains(Image(p), "@")) =>
            LET flat == [i \in 1..Len(Image(p)) |->
                            IF Image(p)[i] \in {"/", "@", ":"}
                            THEN "_" ELSE Image(p)[i]]
            IN  /\ ~Rejected(p)
                /\ lv[p].parts = <<Image(p)>>
                /\ lv[p].joined_image_str = flat
                /\ lv[p].tag_image_str = flat

C10_Witness ==
    \E p \in Reqs :
        /\ HasImage(p)
        /\ Contains(Image(p), "@")
        /\ CountOf(Image(p), ":") = 2
        /\ Issued(p, "pull")

\* the image parameter is missing or has more than two colon segments
Malformed(p) ==
    \/ ~HasImage(p)
    \/ (~Contains(Image(p), "@") /\ CountOf(Image(p), ":") >= 2)

\* a failure the core raised for request p
CoreFailure(p) ==
    \/ (p \in SyncReqs /\ Handled(p) /\ Malformed(p))
    \/ Answered(p, "rmsrc", "err")
    \/ Answered(p, "rmdst", "err")
    \/ Answered(p, "prune", "err")

\* C11: every failure of the core (malformed or missing image, failed
\* remove-source, failed remove-destination, failed prune) is answered with
\* status 401, never 200 or 404; an unmatched route is answered with 404 and
\* the body "Route not found".
C11_StatusMapping ==
    \A p \in Reqs :
        /\ CoreFailure(p) => http[p].status = 401
        /\ (route[p] = "other" /\ Handled(p)) =>
              (http[p].status = 404 /\ http[p].body = "Route not found")

C11_Witness ==
    \E p \in Reqs : \E q \in Reqs :
        /\ Answered(p, "rmdst", "err")
        /\ http[p].status = 401
        /\ route[q] = "other"
        /\ http[q].status = 404

\* C12: the error kind tells the cause: the malformed-reference error is
\* reported only for a missing image parameter or a reference with more than
\* two colon segments, never after an engine call failed (those are
\* CleanupFailed or EngineOperationFailed).
C12_ErrorKindTellsCause ==
    \A p \in Reqs :
        reply[p].kind = "ImageFormatError" =>
            /\ p \in SyncReqs
            /\ Malformed(p)
            /\ ops[p] = <<>>

\* C13: a prune request issues one engine call only, a prune with the filter
\* until = 1m; it returns the engine's summary unchanged when the call
\* succeeds and an error when it fails.
C13_PruneOnce ==
    \A p \in Reqs :
        route[p] = "prune_images" =>
            /\ Len(ops[p]) <= 1
            /\ \A i \in 1..Len(ops[p]) :
                  /\ ops[p][i].op = "prune"
                  /\ ops[p][i].filters = <<"until", "1m">>
            /\ pc[p] = "done" =>
                  /\ Len(ops[p]) = 1
                  /\ ops[p][1].result = "ok" =>
                        /\ reply[p].kind = "pruned"
                        /\ reply[p].summary = ops[p][1].deleted
                        /\ http[p].status = 200
                        /\ http[p].json.summary = ops[p][1].deleted
                  /\ ops[p][1].result = "err" =>
                        /\ reply[p].kind = "ImageFormatError"
                        /\ http[p].status # 200

C13_Witness ==
    \E p \in Reqs :
        /\ route[p] = "prune_images"
        /\ pc[p] = "done"
        /\ ops[p][1].result = "ok"
        /\ ops[p][1].deleted # {}
        /\ reply[p].summary = ops[p][1].deleted

\* C14: the image named by the remove-source call is the image the pull call
\* of the same request pulled, for tagged and digest references alike.
C14_RemovesWhatWasPulled ==
    \A p \in SyncReqs :
        Issued(p, "rmsrc") => ops[p][4].image = ops[p][1].image

\* C15: the destination tag handed to the tag call never contains /, @ or :,
\* for tagged and digest references alike.
C15_TagIsFlat ==
    \A p \in SyncReqs :
        Issued(p, "tag") =>
            /\ ~Contains(ops[p][2].tag, "/")
            /\ ~Contains(ops[p][2].tag, "@")
            /\ ~Contains(ops[p][2].tag, ":")

\* C16: the tag call names the image the pull call pulled (the raw reference
\* when it has a digest, the joined form otherwise), and the tag, push and
\* remove-destination calls of a request name the same repository and tag.
C16_SameIdentifiers ==
    \A p \in SyncReqs :
        /\ Len(ops[p]) >= 1 =>
              ops[p][1].image =
                  IF Contains(Image(p), "@") THEN Image(p)
                  ELSE lv[p].joined_image_str
        /\ Len(ops[p]) >= 2 => ops[p][2].image = ops[p][1].image
        /\ Len(ops[p]) >= 3 =>
              /\ ops[p][3].repo = ops[p][2].repo
              /\ ops[p][3].tag = ops[p][2].tag
        /\ Len(ops[p]) >= 5 =>
              ops[p][5].image = ops[p][2].repo \o <<":">> \o ops[p][2].tag

C16_Witness ==
    \E p \in SyncReqs :
        /\ Len(ops[p]) = 5
        /\ Contains(Image(p), "@")
        /\ ops[p][2].image = Image(p)
        /\ ops[p][5].result = "ok"

\* an accepted reference without digest
Tagged(p) ==
    /\ p \in SyncReqs
    /\ HasImage(p)
    /\ ~Malformed(p)
    /\ ~Contains(Image(p), "@")

\* an engine call that failed although the image it names was in the store,
\* or a stream that carried a failed item
Fault(e) == e.result = "err" /\ ~e.absent

NoFault(p) == \A i \in 1..Len(ops[p]) : ~Fault(ops[p][i])

\* request q removed, by a removal or a prune, an image request p works on
RemovedFrom(q, p) ==
    \E j \in 1..Len(ops[q]) :
        LET mine == {ops[p][1].image, DestName(lv[p].tag_image_str)}
        IN  \/ /\ ops[q][j].op \in {"rmsrc", "rmdst"}
               /\ ops[q][j].result = "ok"
               /\ ops[q][j].image \in mine
            \/ /\ ops[q][j].op = "prune"
               /\ ops[q][j].deleted \cap mine # {}

\* C17: concurrent requests are not mutually excluded. A request for a tagged
\* reference none of whose engine calls met a fault of its own fails only
\* when another request removed one of its images in between (so it never
\* fails alone); and with two requests for the same reference this failure
\* is reached (C17_Witness).
C17_FailsOnlyByInterference ==
    \A p \in Reqs :
        (/\ Tagged(p)
         /\ NoFault(p)
         /\ \E i \in 1..Len(ops[p]) : ops[p][i].result = "err") =>
            \E q \in Reqs \ {p} : RemovedFrom(q, p)

C17_Witness ==
    \E p \in Reqs : \E q \in Reqs \ {p} :
        /\ Tagged(p)
        /\ Tagged(q)
        /\ Image(p) = Image(q)
        /\ NoFault(p)
        /\ NoFault(q)
        /\ Answered(p, "pull", "ok")
        /\ reply[p] = ErrReply
        /\ Answered(q, "rmsrc", "ok")

\* the identifiers an accepted sync request computes from its reference
Pulled(p) == FromImage(LocalsOf(Image(p)))

Removed(p) == LocalsOf(Image(p)).joined_image_str

DestTag(p) == LocalsOf(Image(p)).tag_image_str

AcceptedSync(p) == p \in SyncReqs /\ HasImage(p) /\ ~Malformed(p)

\* two accepted sync requests whose pulled identifiers and destination tags
\* differ
Apart(p, q) ==
    /\ p # q
    /\ AcceptedSync(p)
    /\ AcceptedSync(q)
    /\ Pulled(p) # Pulled(q)
    /\ DestTag(p) # DestTag(q)

\* ... and neither of which has the other's destination image as its source
FullyApart(p, q) ==
    /\ Apart(p, q)
    /\ {Pulled(p), Removed(p)} \cap {DestName(DestTag(q))} = {}
    /\ {Pulled(q), Removed(q)} \cap {DestName(DestTag(p))} = {}

\* a step that is not one of request p leaves the images of p as they are
LeavesAlone(p) ==
    (/\ store' # store
     /\ pc'[p] = pc[p]
     /\ ops'[p] = ops[p]
     /\ stream'[p] = stream[p]) =>
        \A n \in AllNames(map[p]) : (n \in store') <=> (n \in store)

\* C18 as stated: two concurrent requests whose pulled identifiers differ and
\* whose destination tags differ do not interfere: no step of one adds or
\* removes an image the other pulls, tags or removes, so each sees the store
\* it sees when run alone.
C18_ApartNoInterference ==
    [][\A p \in Reqs : \A q \in Reqs : LeavesAlone(p) \/ ~Apart(p, q)]_vars

\* C18 amended: the same, when in addition neither request pulls or removes
\* as its source the image <destination repo>:<destination tag> of the other.
C18_FullyApartNoInterference ==
    [][\A p \in Reqs : \A q \in Reqs : LeavesAlone(p) \/ ~FullyApart(p, q)]_vars

C18_Witness ==
    \E p \in Reqs : \E q \in Reqs :
        /\ FullyApart(p, q)
        /\ pc[p] = "tagging"
        /\ Answered(q, "rmsrc", "ok")
        /\ ops[p][1].image \in store

\* C19: no rollback. The step in which remove-destination fails ends the
\* request with the error and changes neither the local store nor the
\* registry (what was pushed stays pushed, the removed source stays removed,
\* the local destination image stays); a request that has ended issues no
\* further call; and the registry never loses a tag.
C19_NoRollback ==
    [][\A p \in Reqs :
          /\ (pc[p] = "rmdsting" /\ pc'[p] # "rmdsting"
                  /\ reply'[p].kind # "ok") =>
                /\ pc'[p] = "done"
                /\ reply'[p] = ErrReply
                /\ Len(ops'[p]) = 5
                /\ ops'[p][5].result = "err"
                /\ store' = store
                /\ registry' = registry
          /\ pc[p] = "done" =>
                (pc'[p] = "done" /\ ops'[p] = ops[p] /\ reply'[p] = reply[p])
          /\ registry \subseteq registry']_vars

C19_Witness ==
    \E p \in SyncReqs :
        /\ Answered(p, "push", "ok")
        /\ Answered(p, "rmsrc", "ok")
        /\ Answered(p, "rmdst", "err")
        /\ reply[p] = ErrReply
        /\ DestName(lv[p].tag_image_str) \in registry
        /\ DestName(lv[p].tag_image_str) \in store
        /\ lv[p].joined_image_str \notin store

\* C20: a sync request that has issued its engine calls always ends with a
\* response to the caller, the success result or an error, whether or not
\* the items of its progress streams failed.
C20_AlwaysReplies ==
    \A p \in SyncReqs :
        (Ended(p) /\ ops[p] # <<>>) => http[p].status \in {200, 401}

====
